---- MODULE Spec2Model ----
(***************************************************************************)
(* Model of tools/docling-api/price_table_extraction.py:                   *)
(* extract_price_tables_from_text and its nested helpers.                  *)
(*                                                                         *)
(* A text is a sequence of symbols.  A symbol is either one character      *)
(* ("T", "1", ",", " ", "|", "LF" for a line feed, "CR", "TAB", "EUR" for  *)
(* the euro sign, "EMDASH", "ENDASH", "A'" for A with an acute accent) or  *)
(* one whole phrase that the regular expressions of the program look for   *)
(* (a start marker, an end marker, a title, a header name).  A phrase is   *)
(* written in ASCII with an apostrophe after an accented letter.  A        *)
(* regular expression matches at position i exactly when the symbol at i   *)
(* is one of the phrases the expression accepts.                           *)
(***************************************************************************)
EXTENDS Integers, Sequences, FiniteSets, TLC

VARIABLES
    pc,                   \* position of the call in progress
    text,                 \* argument of extract_price_tables_from_text
    norm,                 \* norm = normalize_text(text)
    potencia_data,        \* parse_table_to_columns(...) for potencia
    clasica_base_data,    \* parse_table_to_columns(...) for clasica base
    unica_data_raw,       \* parse_table_to_columns(...) on the unica slice
    unica_data_expanded,  \* expand_unica_table(unica_data_raw)
    titulos,              \* titulo_potencia, titulo_base, titulo_unica
    result,               \* the returned dictionary
    norm_once,            \* normalize_text(x)
    norm_twice,           \* normalize_text(normalize_text(x))
    value,                \* argument of clean_and_convert
    converted,            \* clean_and_convert(value)
    table_data,           \* argument of expand_unica_table / columns_to_tarifas
    expanded_table,       \* expand_unica_table(table_data)
    tarifas,              \* columns_to_tarifas(...)
    endpoint,             \* the route of the request being handled
    uploaded_files,       \* the files of the request
    file_idx,             \* position of the loop over uploaded_files
    entry_idx,            \* position of the loop over pdf_names of a ZIP
    temp_files,           \* the handler's files in UPLOAD_FOLDER
    results,              \* results of the handler
    errors,               \* errors of the handler
    status_code           \* status of the response, 0 before it

vars == <<pc, text, norm, potencia_data, clasica_base_data, unica_data_raw,
          unica_data_expanded, titulos, result, norm_once, norm_twice,
          value, converted, table_data, expanded_table, tarifas,
          endpoint, uploaded_files, file_idx, entry_idx, temp_files,
          results, errors, status_code>>

----------------------------------------------------------------------------
(* Bounds *)

MaxLines == 4        \* lines of a document
MaxDataLines == 3    \* data lines beneath a header in a table region
MaxNormLen == 4      \* characters of a text given to normalize_text
MaxCellLen == 4      \* characters of a cell given to clean_and_convert
MaxRows == 2         \* length of a column given to the reshaper
MaxUnits == 3        \* uploaded files and ZIP entries of a request, together
MaxRepeatLines == 1  \* data lines beneath each of two unica markers

----------------------------------------------------------------------------
(* Generic string helpers (Python str semantics on symbol sequences) *)

Whitespace == {" ", "TAB", "LF", "CR"}

Digits == {"0", "1", "2", "3", "4", "5", "6", "7", "8", "9"}

DigitVal(c) ==
    CASE c = "0" -> 0 [] c = "1" -> 1 [] c = "2" -> 2 [] c = "3" -> 3
      [] c = "4" -> 4 [] c = "5" -> 5 [] c = "6" -> 6 [] c = "7" -> 7
      [] c = "8" -> 8 [] c = "9" -> 9

\* s[i:j] of Python with 1-based inclusive bounds
Slice(s, i, j) == IF j < i THEN <<>> ELSE SubSeq(s, i, j)

\* pat occurs in s at position i
MatchAt(s, i, pat) ==
    /\ i >= 1
    /\ i + Len(pat) - 1 <= Len(s)
    /\ \A k \in 1..Len(pat) : s[i + k - 1] = pat[k]

\* `pat in s`
Contains(s, pat) ==
    \E i \in 1..(Len(s) - Len(pat) + 1) : \A k \in 1..Len(pat) : s[i + k - 1] = pat[k]

RECURSIVE ReplaceFrom(_, _, _, _)
ReplaceFrom(s, i, pat, rep) ==
    IF i > Len(s) THEN <<>>
    ELSE IF MatchAt(s, i, pat)
         THEN rep \o ReplaceFrom(s, i + Len(pat), pat, rep)
         ELSE <<s[i]>> \o ReplaceFrom(s, i + 1, pat, rep)

Range(f) == {f[i] : i \in DOMAIN f}

MinOf(S) == CHOOSE n \in S : \A k \in S : n <= k

MaxOf(S) == IF S = {} THEN 0 ELSE CHOOSE n \in S : \A k \in S : k <= n

\* s.replace(pat, rep) for a non-empty pat: the occurrences are replaced from
\* left to right, without overlap; a string without pat[1] has none
Replace(s, pat, rep) ==
    IF \A i \in 1..Len(s) : s[i] # pat[1] THEN s ELSE ReplaceFrom(s, 1, pat, rep)

RECURSIVE LStrip(_, _)
LStrip(s, chars) ==
    IF s # <<>> /\ Head(s) \in chars THEN LStrip(Tail(s), chars) ELSE s

RECURSIVE RStrip(_, _)
RStrip(s, chars) ==
    IF s # <<>> /\ s[Len(s)] \in chars
    THEN RStrip(SubSeq(s, 1, Len(s) - 1), chars) ELSE s

\* s.strip(chars); s.strip() is Strip(s, Whitespace)
Strip(s, chars) == RStrip(LStrip(s, chars), chars)

\* s.split(sep) for a one-character separator: the pieces between the
\* occurrences of sep, one more piece than occurrences
Split(s, sep) ==
    LET at == {i \in 1..Len(s) : s[i] = sep}
        \* position of the k-th occurrence; 0 and Len(s) + 1 are the ends
        nth(k) == IF k = 0 THEN 0
                  ELSE IF k > Cardinality(at) THEN Len(s) + 1
                  ELSE CHOOSE p \in at : Cardinality({q \in at : q < p}) = k - 1
    IN  [k \in 1..(Cardinality(at) + 1) |-> Slice(s, nth(k - 1) + 1, nth(k) - 1)]

\* end of the maximal run of whitespace that starts at i
RECURSIVE RunEnd(_, _, _)
RunEnd(s, i, chars) ==
    IF i + 1 <= Len(s) /\ s[i + 1] \in chars THEN RunEnd(s, i + 1, chars) ELSE i

RECURSIVE SplitRunsFrom(_, _, _)
SplitRunsFrom(s, i, start) ==
    IF i > Len(s) THEN <<Slice(s, start, Len(s))>>
    ELSE IF s[i] \in Whitespace /\ RunEnd(s, i, Whitespace) > i
         THEN <<Slice(s, start, i - 1)>>
                \o SplitRunsFrom(s, RunEnd(s, i, Whitespace) + 1,
                                 RunEnd(s, i, Whitespace) + 1)
         ELSE SplitRunsFrom(s, i + 1, start)

\* re.split(r'\s{2,}', s)
SplitOnSpaces2(s) == SplitRunsFrom(s, 1, 1)

RECURSIVE Concat(_)
Concat(ss) == IF ss = <<>> THEN <<>> ELSE Head(ss) \o Concat(Tail(ss))

RECURSIVE Join(_, _)
Join(ss, sep) ==
    IF ss = <<>> THEN <<>>
    ELSE IF Len(ss) = 1 THEN ss[1]
    ELSE ss[1] \o sep \o Join(Tail(ss), sep)

RECURSIVE SeqsUpTo(_, _)
SeqsUpTo(S, n) ==
    IF n = 0 THEN {<<>>}
    ELSE LET shorter == SeqsUpTo(S, n - 1)
         IN  shorter \cup {Append(q, c) : q \in shorter, c \in S}

----------------------------------------------------------------------------
(* strip_accents, normalize_text *)

\* strip_accents(c).lower() for the symbols it changes: NFKD decomposition,
\* removal of the combining marks, lowercasing
Lowered ==
    "T" :> "t" @@ "E" :> "e" @@ "K" :> "k" @@ "W" :> "w" @@ "P" :> "p"
    @@ "A'" :> "a"
    @@ "TE'RMINO DE POTENCIA (EUR/kW y di'a)" :> "termino de potencia (EUR/kw y dia)"
    @@ "Estos precios llevan incluidos" :> "estos precios llevan incluidos"
    @@ "PRECIO POTENCIA (EUR/kW y di'a)" :> "precio potencia (EUR/kw y dia)"
    @@ "PRECIO CLA'SICA BASE TE3 (cEUR/kWh)" :> "precio clasica base te3 (cEUR/kwh)"
    @@ "PRECIO CLA'SICA BASE TE3 UNICA (cEUR/kWh)"
           :> "precio clasica base te3 unica (cEUR/kwh)"
    @@ "En caso de no marcar la casilla" :> "en caso de no marcar la casilla"
    @@ "TARIFA" :> "tarifa"
    @@ "POTENCIA CONTRATADA" :> "potencia contratada"

NormSym(c) == IF c \in DOMAIN Lowered THEN Lowered[c] ELSE c

strip_accents_lower(s) == [i \in 1..Len(s) |-> NormSym(s[i])]

Blank == {" ", "TAB"}

\* a space or tab that continues a run: the substitution drops it
InRun(p) == p[1] \in Blank /\ p[2]

\* re.sub(r"[ \t]+", " ", s): each maximal run of spaces and tabs becomes one
\* space
CollapseSpaces(s) ==
    LET marked == [i \in 1..Len(s) |-> <<s[i], i > 1 /\ s[i - 1] \in Blank>>]
        kept == SelectSeq(marked, LAMBDA p : ~InRun(p))
    IN  [i \in 1..Len(kept) |-> IF kept[i][1] \in Blank THEN " " ELSE kept[i][1]]

normalize_text(s) ==
    LET s1 == strip_accents_lower(s)
        s2 == Replace(Replace(s1, <<"CR", "LF">>, <<"LF">>), <<"CR">>, <<"LF">>)
        s3 == Replace(Replace(s2, <<"EUR", " ", "/">>, <<"EUR", "/">>),
                      <<"c", "EUR", " ", "/">>, <<"c", "EUR", "/">>)
        s4 == Replace(Replace(s3, <<"k", " ", "w">>, <<"k", "w">>),
                      <<"k", "w", "h">>, <<"k", "w", "h">>)
    IN  CollapseSpaces(s4)

----------------------------------------------------------------------------
(* Cell values: None, a float (m * 10^x, m not a multiple of 10), a str *)

Null == [t |-> "null", s |-> <<>>, m |-> 0, x |-> 0]
Num(m, x) == [t |-> "num", s |-> <<>>, m |-> m, x |-> x]
Str(s) == [t |-> "str", s |-> s, m |-> 0, x |-> 0]

----------------------------------------------------------------------------
(* clean_and_convert, with Python's float() on the characters modelled *)

AllDigits(s) == \A i \in 1..Len(s) : s[i] \in Digits

RECURSIVE ToInt(_)
ToInt(s) ==
    IF s = <<>> THEN 0
    ELSE 10 * ToInt(SubSeq(s, 1, Len(s) - 1)) + DigitVal(s[Len(s)])

\* position of the first symbol of s at or after i that is in chars, 0 when
\* there is none
FirstOf(s, i, chars) ==
    LET at == {k \in i..Len(s) : s[k] \in chars}
    IN  IF at = {} THEN 0 ELSE MinOf(at)

Unsigned(s) == IF s # <<>> /\ s[1] \in {"-", "+"} THEN Tail(s) ELSE s

Mantissa(s) ==
    LET e == FirstOf(s, 1, {"e", "E"})
    IN  IF e = 0 THEN s ELSE Slice(s, 1, e - 1)

Exponent(s) ==
    LET e == FirstOf(s, 1, {"e", "E"})
    IN  IF e = 0 THEN <<"0">> ELSE Slice(s, e + 1, Len(s))

IntPart(mant) ==
    LET d == FirstOf(mant, 1, {"."})
    IN  IF d = 0 THEN mant ELSE Slice(mant, 1, d - 1)

FracPart(mant) ==
    LET d == FirstOf(mant, 1, {"."})
    IN  IF d = 0 THEN <<>> ELSE Slice(mant, d + 1, Len(mant))

\* float(s) does not raise ValueError: [sign] digits [. digits] [e [sign] digits]
\* with a digit in the mantissa ("inf", "nan", "_" are outside the alphabet)
IsFloat(s) ==
    LET body == Unsigned(s)
        mant == Mantissa(body)
        expo == Exponent(body)
    IN  /\ AllDigits(IntPart(mant))
        /\ AllDigits(FracPart(mant))
        /\ Len(IntPart(mant)) + Len(FracPart(mant)) >= 1
        /\ Unsigned(expo) # <<>>
        /\ AllDigits(Unsigned(expo))

RECURSIVE Reduce(_, _)
Reduce(m, x) ==
    IF m = 0 THEN Num(0, 0)
    ELSE IF m % 10 = 0 THEN Reduce(m \div 10, x + 1)
    ELSE Num(m, x)

\* float(s) for a string on which IsFloat holds
FloatOf(s) ==
    LET body == Unsigned(s)
        mant == Mantissa(body)
        expo == Exponent(body)
        mag  == ToInt(IntPart(mant) \o FracPart(mant))
        ex   == (IF expo[1] = "-" THEN 0 - ToInt(Unsigned(expo))
                 ELSE ToInt(Unsigned(expo))) - Len(FracPart(mant))
        r    == Reduce(mag, ex)
    IN  IF s[1] = "-" THEN Num(0 - r.m, r.x) ELSE r

NullCells == {<<"EMDASH">>, <<"-">>, <<>>}

Cleaned(v) == Strip(Replace(v, <<"|">>, <<>>), Whitespace)

Standardized(cleaned) == Replace(Replace(cleaned, <<".">>, <<>>), <<",">>, <<".">>)

\* a conversion that turns the decimal comma into a period before it removes
\* the periods
clean_and_convert_swapped(v) ==
    LET cleaned_value == Cleaned(v)
        standardized_value ==
            Replace(Replace(cleaned_value, <<",">>, <<".">>), <<".">>, <<>>)
    IN  IF cleaned_value \in NullCells THEN Null
        ELSE IF IsFloat(standardized_value) THEN FloatOf(standardized_value)
        ELSE Str(cleaned_value)

clean_and_convert(v) ==
    LET cleaned_value == Cleaned(v)
        standardized_value == Standardized(cleaned_value)
    IN  IF cleaned_value \in NullCells THEN Null
        ELSE IF IsFloat(standardized_value) THEN FloatOf(standardized_value)
        ELSE Str(cleaned_value)

----------------------------------------------------------------------------
(* Headers and regular expressions of extract_price_tables_from_text *)

potencia_headers ==
    <<"TARIFA", "POTENCIA CONTRATADA", "P1", "P2", "P3", "P4", "P5", "P6">>

clasica_base_headers ==
    <<"TARIFA", "POTENCIA CONTRATADA", "P1", "P2", "P3", "P4", "P5", "P6">>

unica_headers == <<"TARIFA", "POTENCIA CONTRATADA", "P1 - P6">>

\* the characters of a header name
HeaderText(h) ==
    CASE h = "TARIFA" -> <<"TARIFA">>
      [] h = "POTENCIA CONTRATADA" -> <<"POTENCIA CONTRATADA">>
      [] h = "P1" -> <<"P", "1">>
      [] h = "P2" -> <<"P", "2">>
      [] h = "P3" -> <<"P", "3">>
      [] h = "P4" -> <<"P", "4">>
      [] h = "P5" -> <<"P", "5">>
      [] h = "P6" -> <<"P", "6">>
      [] h = "P1 - P6" -> <<"P", "1", " ", "-", " ", "P", "6">>

\* a compiled pattern: the normalized phrases it matches, and whether it is
\* anchored at the start of the searched string ("^" without re.MULTILINE)
Rx(phrases, anchored) == [syms |-> phrases, anchored |-> anchored]

potencia_start_rx == Rx({"termino de potencia (EUR/kw y dia)"}, FALSE)
potencia_end_rx == Rx({"estos precios llevan incluidos"}, FALSE)
potencia_title_rx == Rx({"precio potencia (EUR/kw y dia)"}, FALSE)

clasica_base_start_rx == Rx({"precio clasica base te3 (cEUR/kwh)"}, FALSE)
\* "precio clasica base te\d unica" matches the beginning of the unica marker
clasica_base_end_rx == Rx({"precio clasica base te3 unica (cEUR/kwh)"}, FALSE)
clasica_base_title_rx == Rx({"precio clasica base te3 (cEUR/kwh)"}, FALSE)

unica_start_rx == Rx({"precio clasica base te3 unica (cEUR/kwh)"}, FALSE)
unica_end_rx == Rx({"en caso de no marcar la casilla"}, FALSE)

\* re.compile(r"^" + unica_start_rx.pattern)
Anchored(rx) == Rx(rx.syms, TRUE)

\* rx.search(s, pos).start() as a 1-based position, 0 for no match
Search(rx, s, pos) ==
    IF rx.anchored
    THEN IF pos = 1 /\ Len(s) >= 1 /\ s[1] \in rx.syms THEN 1 ELSE 0
    ELSE FirstOf(s, pos, rx.syms)

\* start of the last match of rx.finditer(s), 0 for no match
LastMatch(rx, s) == MaxOf({i \in 1..Len(s) : s[i] \in rx.syms})

----------------------------------------------------------------------------
(* parse_table_to_columns *)

\* the empty dict {}
EmptyTable == [h \in {} |-> <<>>]

\* [p.strip() for p in pieces if p.strip()]
RECURSIVE StripNonEmpty(_)
StripNonEmpty(pieces) ==
    IF pieces = <<>> THEN <<>>
    ELSE LET p == Strip(Head(pieces), Whitespace)
         IN  IF p = <<>> THEN StripNonEmpty(Tail(pieces))
             ELSE <<p>> \o StripNonEmpty(Tail(pieces))

\* prefer '|' as delimiter, else split on 2+ spaces
Parts(line) ==
    StripNonEmpty(IF \E i \in 1..Len(line) : line[i] = "|" THEN Split(line, "|")
                  ELSE SplitOnSpaces2(line))

DashLike == {"-", "ENDASH", "EMDASH"}

\* the line is skipped as a separator or empty line
Skipped(parts) ==
    parts = <<>> \/ \A i \in 1..Len(parts[1]) : parts[1][i] \in DashLike

AllIn(hs, line) == \A i \in 1..Len(hs) : Contains(line, hs[i])

\* index of the first line that holds every header, 0 for none
RECURSIVE HeaderRow1(_, _, _)
HeaderRow1(lines, hs, i) ==
    IF i > Len(lines) THEN 0
    ELSE IF AllIn(hs, lines[i]) THEN i ELSE HeaderRow1(lines, hs, i + 1)

\* index of the first pair of adjacent lines that holds every header
RECURSIVE HeaderRow2(_, _, _)
HeaderRow2(lines, hs, i) ==
    IF i + 1 > Len(lines) THEN 0
    ELSE IF AllIn(hs, Strip(lines[i] \o <<" ">> \o lines[i + 1], Whitespace))
         THEN i ELSE HeaderRow2(lines, hs, i + 1)

\* the header row: one line, else two adjacent lines
HeaderRowIndex(lines, hs) ==
    LET one == HeaderRow1(lines, hs, 1)
    IN  IF one # 0 THEN one
        ELSE IF Len(lines) >= 2 THEN HeaderRow2(lines, hs, 1)
        ELSE 0

\* one pass of the loop over data_lines: every header's column gets the
\* converted fragment at its position, or None
AppendRow(columns, headers, parts) ==
    [h \in DOMAIN columns |->
        LET idx == CHOOSE i \in 1..Len(headers) : headers[i] = h
        IN  IF idx <= Len(parts)
            THEN Append(columns[h], clean_and_convert(parts[idx]))
            ELSE Append(columns[h], Null)]

RECURSIVE FillColumns(_, _, _, _)
FillColumns(columns, headers, data_lines, i) ==
    IF i > Len(data_lines) THEN columns
    ELSE LET parts == Parts(data_lines[i])
         IN  IF Skipped(parts)
             THEN FillColumns(columns, headers, data_lines, i + 1)
             ELSE FillColumns(AppendRow(columns, headers, parts), headers,
                              data_lines, i + 1)

\* every column is right-padded with None to the longest column
PadColumns(columns) ==
    LET max_len == MaxOf({Len(columns[h]) : h \in DOMAIN columns})
    IN  [h \in DOMAIN columns |->
            columns[h] \o [k \in 1..(max_len - Len(columns[h])) |-> Null]]

\* table_block.strip().split('\n')
TableLines(norm_text, start_pattern, end_pattern) ==
    LET start_idx == Search(start_pattern, norm_text, 1)
        end_idx == Search(end_pattern, norm_text, start_idx)
        table_block == IF end_idx # 0 THEN Slice(norm_text, start_idx, end_idx - 1)
                       ELSE Slice(norm_text, start_idx, Len(norm_text))
    IN  Split(Strip(table_block, Whitespace), "LF")

\* the part of parse_table_to_columns after the table block is cut out:
\* the header row is located, the data lines fill the columns, the columns
\* are padded
ParseLines(lines, headers) ==
    LET norm_headers == [i \in 1..Len(headers) |->
                            normalize_text(HeaderText(headers[i]))]
        header_row_index == HeaderRowIndex(lines, norm_headers)
    IN  IF header_row_index = 0 THEN EmptyTable
        ELSE PadColumns(FillColumns(
                 [h \in Range(headers) |-> <<>>], headers,
                 Slice(lines, header_row_index + 1, Len(lines)), 1))

\* a parse that takes the whole text as the table when the start marker is
\* missing
parse_table_to_columns_anywhere(orig_text, norm_text, headers, start_pattern, end_pattern) ==
    IF Search(start_pattern, norm_text, 1) = 0
    THEN ParseLines(Split(Strip(norm_text, Whitespace), "LF"), headers)
    ELSE ParseLines(TableLines(norm_text, start_pattern, end_pattern), headers)

\* a line's fragments are appended to the columns that have one, no None
AppendRowRagged(columns, headers, parts) ==
    [h \in DOMAIN columns |->
        LET idx == CHOOSE i \in 1..Len(headers) : headers[i] = h
        IN  IF idx <= Len(parts)
            THEN Append(columns[h], clean_and_convert(parts[idx]))
            ELSE columns[h]]

RECURSIVE FillColumnsRagged(_, _, _, _)
FillColumnsRagged(columns, headers, data_lines, i) ==
    IF i > Len(data_lines) THEN columns
    ELSE LET parts == Parts(data_lines[i])
         IN  IF Skipped(parts)
             THEN FillColumnsRagged(columns, headers, data_lines, i + 1)
             ELSE FillColumnsRagged(AppendRowRagged(columns, headers, parts),
                                    headers, data_lines, i + 1)

\* a parse that neither fills the missing trailing columns nor pads
parse_table_to_columns_unpadded(orig_text, norm_text, headers, start_pattern, end_pattern) ==
    IF Search(start_pattern, norm_text, 1) = 0 THEN EmptyTable
    ELSE LET lines == TableLines(norm_text, start_pattern, end_pattern)
             norm_headers == [i \in 1..Len(headers) |->
                                 normalize_text(HeaderText(headers[i]))]
             header_row_index == HeaderRowIndex(lines, norm_headers)
         IN  IF header_row_index = 0 THEN EmptyTable
             ELSE FillColumnsRagged(
                      [h \in Range(headers) |-> <<>>], headers,
                      Slice(lines, header_row_index + 1, Len(lines)), 1)

\* any exception inside is caught and gives {}; the operators used are total
parse_table_to_columns(orig_text, norm_text, headers, start_pattern, end_pattern) ==
    IF Search(start_pattern, norm_text, 1) = 0 THEN EmptyTable
    ELSE ParseLines(TableLines(norm_text, start_pattern, end_pattern), headers)

----------------------------------------------------------------------------
(* expand_unica_table, columns_to_tarifas *)

PeriodKeys == {"P1", "P2", "P3", "P4", "P5", "P6"}

\* an expansion whose loop stops one period early: range(1, 6)
expand_unica_table_five(td) ==
    IF DOMAIN td = {} \/ "P1 - P6" \notin DOMAIN td THEN EmptyTable
    ELSE [k \in (DOMAIN td \cap {"TARIFA", "POTENCIA CONTRATADA"})
                    \cup (PeriodKeys \ {"P6"}) |->
             IF k \in PeriodKeys THEN td["P1 - P6"] ELSE td[k]]

expand_unica_table(td) ==
    IF DOMAIN td = {} \/ "P1 - P6" \notin DOMAIN td THEN EmptyTable
    ELSE [k \in (DOMAIN td \cap {"TARIFA", "POTENCIA CONTRATADA"}) \cup PeriodKeys |->
             IF k \in PeriodKeys THEN td["P1 - P6"] ELSE td[k]]

\* columns.get(key, [None] * max_len)[i] if len(columns.get(key, [])) > i else None
\* for the 0-based row index i - 1
FieldAt(columns, key, i) ==
    IF key \in DOMAIN columns /\ Len(columns[key]) >= i THEN columns[key][i]
    ELSE Null

\* a pivot that takes the number of rows from the TARIFA column
columns_to_tarifas_by_tarifa(columns) ==
    IF DOMAIN columns = {} THEN <<>>
    ELSE LET max_len == IF "TARIFA" \in DOMAIN columns
                        THEN Len(columns["TARIFA"]) ELSE 0
         IN  [i \in 1..max_len |->
                 [tarifa |-> FieldAt(columns, "TARIFA", i),
                  potencia_contratada |-> FieldAt(columns, "POTENCIA CONTRATADA", i),
                  P1 |-> FieldAt(columns, "P1", i),
                  P2 |-> FieldAt(columns, "P2", i),
                  P3 |-> FieldAt(columns, "P3", i),
                  P4 |-> FieldAt(columns, "P4", i),
                  P5 |-> FieldAt(columns, "P5", i),
                  P6 |-> FieldAt(columns, "P6", i)]]

columns_to_tarifas(columns) ==
    IF DOMAIN columns = {} THEN <<>>
    ELSE LET max_len == MaxOf({Len(columns[k]) : k \in DOMAIN columns})
         IN  [i \in 1..max_len |->
                 [tarifa |-> FieldAt(columns, "TARIFA", i),
                  potencia_contratada |-> FieldAt(columns, "POTENCIA CONTRATADA", i),
                  P1 |-> FieldAt(columns, "P1", i),
                  P2 |-> FieldAt(columns, "P2", i),
                  P3 |-> FieldAt(columns, "P3", i),
                  P4 |-> FieldAt(columns, "P4", i),
                  P5 |-> FieldAt(columns, "P5", i),
                  P6 |-> FieldAt(columns, "P6", i)]]

----------------------------------------------------------------------------
(* find_title_line and the default titles *)

\* Optional[str]
None == [some |-> FALSE, s |-> <<>>]
Some(s) == [some |-> TRUE, s |-> s]

\* the first part of the cleaned line that matches, else the cleaned line
RECURSIVE TitlePart(_, _, _, _)
TitlePart(parts, i, rx, cleaned) ==
    IF i > Len(parts) THEN cleaned
    ELSE IF Search(rx, normalize_text(parts[i]), 1) # 0
         THEN Strip(parts[i], Whitespace)
         ELSE TitlePart(parts, i + 1, rx, cleaned)

CleanTitle(line, rx) ==
    LET cleaned == Strip(Strip(Strip(Strip(line, Whitespace), {"#"}), {"|"}),
                         Whitespace)
    IN  IF \E i \in 1..Len(cleaned) : cleaned[i] = "|"
        THEN TitlePart(StripNonEmpty(Split(cleaned, "|")), 1, rx, cleaned)
        ELSE cleaned

RECURSIVE FindTitleFrom(_, _, _)
FindTitleFrom(lines, i, rx) ==
    IF i > Len(lines) THEN None
    ELSE IF Search(rx, normalize_text(lines[i]), 1) # 0
         THEN LET cleaned == CleanTitle(lines[i], rx)
              IN  IF cleaned # <<>> THEN Some(cleaned) ELSE None
         ELSE FindTitleFrom(lines, i + 1, rx)

find_title_line(orig_text, title_rx_norm) ==
    IF orig_text = <<>> THEN None
    ELSE FindTitleFrom(
             Split(Replace(Replace(orig_text, <<"CR", "LF">>, <<"LF">>),
                           <<"CR">>, <<"LF">>), "LF"),
             1, title_rx_norm)

default_titulo_potencia == <<"PRECIO POTENCIA (EUR/kWdi'a)">>
default_titulo_base == <<"PRECIO CLA'SICA BASE TE3 (cEUR/kWh)">>
default_titulo_unica == <<"PRECIO CLA'SICA BASE TE3 UNICA (cEUR/kWh)">>

\* the found title without the fallback
TitleOrNothing(found, default) == found.s

\* `found or default`: None and '' are falsy
TitleOr(found, default) ==
    IF found.some /\ found.s # <<>> THEN found.s ELSE default

----------------------------------------------------------------------------
(* Input documents *)

Bar == <<" ", "|", " ">>

LinePotenciaStart == <<"TE'RMINO DE POTENCIA (EUR/kW y di'a)">>
LinePotenciaEnd == <<"Estos precios llevan incluidos">>
\* a title line with table artefacts around the title
LinePotenciaTitle ==
    <<"#", " ">> \o Join(<<<<"PRECIO POTENCIA (EUR/kW y di'a)">>, <<"T", "E", "1">>>>, Bar)
LineBaseStart == <<"PRECIO CLA'SICA BASE TE3 (cEUR/kWh)">>
LineUnicaStart == <<"PRECIO CLA'SICA BASE TE3 UNICA (cEUR/kWh)">>
LineUnicaEnd == <<"En caso de no marcar la casilla">>

LineHeader8 == Join([i \in 1..8 |-> HeaderText(potencia_headers[i])], Bar)
LineHeader3 == Join([i \in 1..3 |-> HeaderText(unica_headers[i])], Bar)
\* the 8-column header broken over two lines
LineHeader8a == Join([i \in 1..4 |-> HeaderText(potencia_headers[i])], Bar)
LineHeader8b == Join([i \in 1..4 |-> HeaderText(potencia_headers[i + 4])], Bar)

\* TE1 | 3.45 | 0,12 | 0,15 | 0,10 | 0,10 | 0,15 | 0,12
LineData8 ==
    Join(<<<<"T", "E", "1">>, <<"3", ".", "4", "5">>, <<"0", ",", "1", "2">>,
           <<"0", ",", "1", "5">>, <<"0", ",", "1", "0">>, <<"0", ",", "1", "0">>,
           <<"0", ",", "1", "5">>, <<"0", ",", "1", "2">>>>, Bar)
\* TE2 | 4,6 | 10,5
LineData3 ==
    Join(<<<<"T", "E", "2">>, <<"4", ",", "6">>, <<"1", "0", ",", "5">>>>, Bar)
\* --- | ---
LineSeparator == Join(<<<<"-", "-", "-">>, <<"-", "-", "-">>>>, Bar)
LineEmpty == <<>>
\* TA'4  3,45  0,12   (columns separated by two spaces, no bar)
LineDataSpaces ==
    Join(<<<<"T", "A'", "4">>, <<"3", ",", "4", "5">>, <<"0", ",", "1", "2">>>>,
         <<" ", " ">>)
\* nine fragments, one more than the headers
LineDataLong ==
    Join(<<<<"T", "E", "5">>, <<"1">>, <<"2">>, <<"3">>, <<"4">>, <<"5">>,
           <<"6">>, <<"7">>, <<"8">>>>, Bar)
\* | EMDASH | 1.234,56 |
LineDataDash ==
    <<"|", " ">> \o Join(<<<<"EMDASH">>, <<"1", ".", "2", "3", "4", ",", "5", "6">>>>, Bar)
        \o <<" ", "|">>

DocLines ==
    {LinePotenciaStart, LinePotenciaEnd, LineBaseStart, LineUnicaStart,
     LineHeader8, LineHeader3, LineData8}

DataLines ==
    {LineData3, LineSeparator, LineEmpty, LineDataSpaces, LineDataLong,
     LineDataDash, LineUnicaEnd}

TableHeads ==
    {<<LinePotenciaStart, LineHeader8>>,
     <<LinePotenciaTitle, LineUnicaStart, LineHeader3>>,
     <<LineBaseStart, LineHeader8a, LineHeader8b>>}

\* whole documents of at most MaxLines lines
DocTexts == {Join(ls, <<"LF">>) : ls \in SeqsUpTo(DocLines, MaxLines)}

\* one table region: marker, header, at most MaxDataLines data lines
TableTexts ==
    {Join(hd \o ls, <<"LF">>) : hd \in TableHeads, ls \in SeqsUpTo(DataLines, MaxDataLines)}

\* the unica table printed twice; the second time with or without its header
RepeatTexts ==
    {Join(<<LineUnicaStart, LineHeader3>> \o ls1 \o hd2 \o ls2, <<"LF">>) :
        ls1 \in SeqsUpTo(DataLines, MaxRepeatLines),
        hd2 \in {<<LineUnicaStart, LineHeader3>>, <<LineUnicaStart>>},
        ls2 \in SeqsUpTo(DataLines, MaxRepeatLines)}

Texts == DocTexts \cup TableTexts \cup RepeatTexts

\* texts given to normalize_text alone
NormAlphabet == {"k", "W", " ", "TAB", "EUR", "/", "c", "CR", "LF"}
NormTexts == SeqsUpTo(NormAlphabet, MaxNormLen)

\* cells given to clean_and_convert alone
CellAlphabet == {"0", "1", ".", ",", "-", "EMDASH", "|", " ", "T", "E"}
ExampleCells ==
    {<<"1", ".", "2", "3", "4", ",", "5", "6">>, <<"T", "E", "1">>,
     <<"3", ".", "4", "5">>, <<"|", " ", "0", ",", "1", "0", " ">>,
     <<"ENDASH">>, <<" ", "EMDASH", " ", "|">>}
Cells == SeqsUpTo(CellAlphabet, MaxCellLen) \cup ExampleCells

\* columnar tables given to the reshaper alone: columns of length n, any of
\* them absent, one of them one shorter
ReshapeKeys ==
    <<"TARIFA", "POTENCIA CONTRATADA", "P1", "P2", "P3", "P4", "P5", "P6", "P1 - P6">>

KeyIndex(k) == CHOOSE i \in 1..Len(ReshapeKeys) : ReshapeKeys[i] = k

DigitChar(n) == CHOOSE c \in Digits : DigitVal(c) = n

SampleCell(k, i) ==
    IF k = 1 THEN Str(<<"t", "e", DigitChar(i)>>)
    ELSE IF (k + i) % 4 = 0 THEN Null
    ELSE Num(10 * k + i, 0)

SampleTables ==
    {[k \in present |->
         [i \in 1..(IF k = short /\ n > 0 THEN n - 1 ELSE n) |->
             SampleCell(KeyIndex(k), i)]] :
        n \in 0..MaxRows,
        present \in SUBSET Range(ReshapeKeys),
        short \in Range(ReshapeKeys) \cup {"none"}}

----------------------------------------------------------------------------
(* State before a call, and values of the variables a call does not use *)

NoTitulos == [potencia |-> <<>>, base |-> <<>>, unica |-> <<>>]

NoResult ==
    [filename |-> "",
     tabla_precio_potencia |-> [titulo |-> <<>>, tarifas |-> <<>>],
     tabla_precio_clasica_base |-> [titulo |-> <<>>, tarifas |-> <<>>],
     tabla_precio_clasica_unica |-> [titulo |-> <<>>, tarifas |-> <<>>]]

IdleExtract ==
    /\ norm = <<>>
    /\ potencia_data = EmptyTable
    /\ clasica_base_data = EmptyTable
    /\ unica_data_raw = EmptyTable
    /\ unica_data_expanded = EmptyTable
    /\ titulos = NoTitulos
    /\ result = NoResult

IdleNormalize == norm_once = <<>> /\ norm_twice = <<>>

IdleConvert == value = <<>> /\ converted = Null

IdleReshape ==
    table_data = EmptyTable /\ expanded_table = EmptyTable /\ tarifas = <<>>

IdleUpload ==
    /\ endpoint = ""
    /\ uploaded_files = <<>>
    /\ file_idx = 0
    /\ entry_idx = 0
    /\ temp_files = {}
    /\ results = <<>>
    /\ errors = <<>>
    /\ status_code = 0

uploadVars ==
    <<endpoint, uploaded_files, file_idx, entry_idx, temp_files,
      results, errors, status_code>>
extractVars ==
    <<norm, potencia_data, clasica_base_data, unica_data_raw,
      unica_data_expanded, titulos, result>>
otherVars ==
    <<norm_once, norm_twice, value, converted, table_data, expanded_table, tarifas>>

----------------------------------------------------------------------------
(* extract_price_tables_from_text(text), statement by statement *)

Init ==
    /\ pc = "start"
    /\ text \in Texts
    /\ IdleExtract /\ IdleNormalize /\ IdleConvert /\ IdleReshape /\ IdleUpload

\* norm = normalize_text(text)
Normalize ==
    /\ pc = "start"
    /\ norm' = normalize_text(text)
    /\ pc' = "parse_potencia"
    /\ UNCHANGED <<uploadVars, text, potencia_data, clasica_base_data, unica_data_raw,
                   unica_data_expanded, titulos, result, otherVars>>

ParsePotencia ==
    /\ pc = "parse_potencia"
    /\ potencia_data' = parse_table_to_columns(text, norm, potencia_headers,
                                               potencia_start_rx, potencia_end_rx)
    /\ pc' = "parse_base"
    /\ UNCHANGED <<uploadVars, text, norm, clasica_base_data, unica_data_raw,
                   unica_data_expanded, titulos, result, otherVars>>

ParseClasicaBase ==
    /\ pc = "parse_base"
    /\ clasica_base_data' = parse_table_to_columns(text, norm, clasica_base_headers,
                                clasica_base_start_rx, clasica_base_end_rx)
    /\ pc' = "parse_unica"
    /\ UNCHANGED <<uploadVars, text, norm, potencia_data, unica_data_raw,
                   unica_data_expanded, titulos, result, otherVars>>

\* the slice from the first match on
UnicaSliceFirst(n) == Slice(n, Search(unica_start_rx, n, 1), Len(n))

\* the slice of norm the unica table is parsed from: from the last match on
UnicaSlice(n) == Slice(n, LastMatch(unica_start_rx, n), Len(n))

\* UNICA: prefer last occurrence; then unica_data_expanded
ParseUnica ==
    /\ pc = "parse_unica"
    /\ unica_data_raw' =
          IF LastMatch(unica_start_rx, norm) # 0
          THEN parse_table_to_columns(text, UnicaSlice(norm), unica_headers,
                                      Anchored(unica_start_rx), unica_end_rx)
          ELSE EmptyTable
    /\ unica_data_expanded' = expand_unica_table(unica_data_raw')
    /\ pc' = "titles"
    /\ UNCHANGED <<uploadVars, text, norm, potencia_data, clasica_base_data,
                   titulos, result, otherVars>>

\* titulo_potencia, titulo_base, titulo_unica
Titulos(t) ==
    [potencia |-> TitleOr(find_title_line(t, potencia_title_rx),
                          default_titulo_potencia),
     base |-> TitleOr(find_title_line(t, clasica_base_title_rx),
                      default_titulo_base),
     unica |-> TitleOr(find_title_line(t, unica_start_rx),
                       default_titulo_unica)]

\* the titles are detected and the result is built and returned
Assemble ==
    /\ pc = "titles"
    /\ titulos' = Titulos(text)
    /\ result' =
          [filename |-> "Total Energies",
           tabla_precio_potencia |->
               [titulo |-> titulos'.potencia,
                tarifas |-> columns_to_tarifas(potencia_data)],
           tabla_precio_clasica_base |->
               [titulo |-> titulos'.base,
                tarifas |-> columns_to_tarifas(clasica_base_data)],
           tabla_precio_clasica_unica |->
               [titulo |-> titulos'.unica,
                tarifas |-> columns_to_tarifas(unica_data_expanded)]]
    /\ pc' = "done"
    /\ UNCHANGED <<uploadVars, text, norm, potencia_data, clasica_base_data, unica_data_raw,
                   unica_data_expanded, otherVars>>

Next ==
    \/ Normalize
    \/ ParsePotencia
    \/ ParseClasicaBase
    \/ ParseUnica
    \/ Assemble

Spec == Init /\ [][Next]_vars

----------------------------------------------------------------------------
(* normalize_text applied to a text, and again to its own result *)

InitNormalize ==
    /\ pc = "norm_start"
    /\ text \in NormTexts
    /\ IdleExtract /\ IdleNormalize /\ IdleConvert /\ IdleReshape /\ IdleUpload

NormalizeOnce ==
    /\ pc = "norm_start"
    /\ norm_once' = normalize_text(text)
    /\ pc' = "norm_once"
    /\ UNCHANGED <<uploadVars, text, extractVars, norm_twice, value, converted,
                   table_data, expanded_table, tarifas>>

NormalizeTwice ==
    /\ pc = "norm_once"
    /\ norm_twice' = normalize_text(norm_once)
    /\ pc' = "norm_done"
    /\ UNCHANGED <<uploadVars, text, extractVars, norm_once, value, converted,
                   table_data, expanded_table, tarifas>>

NextNormalize == NormalizeOnce \/ NormalizeTwice

SpecNormalize == InitNormalize /\ [][NextNormalize]_vars

----------------------------------------------------------------------------
(* clean_and_convert applied to a cell *)

InitConvert ==
    /\ pc = "cell_start"
    /\ value \in Cells
    /\ converted = Null
    /\ text = <<>>
    /\ IdleExtract /\ IdleNormalize /\ IdleReshape /\ IdleUpload

Convert ==
    /\ pc = "cell_start"
    /\ converted' = clean_and_convert(value)
    /\ pc' = "cell_done"
    /\ UNCHANGED <<uploadVars, text, extractVars, norm_once, norm_twice, value,
                   table_data, expanded_table, tarifas>>

NextConvert == Convert

SpecConvert == InitConvert /\ [][NextConvert]_vars

----------------------------------------------------------------------------
(* columns_to_tarifas and expand_unica_table applied to a columnar table *)

InitReshape ==
    /\ pc = "reshape_start"
    /\ table_data \in SampleTables
    /\ expanded_table = EmptyTable
    /\ tarifas = <<>>
    /\ text = <<>>
    /\ IdleExtract /\ IdleNormalize /\ IdleConvert /\ IdleUpload

\* columns_to_tarifas(table_data)
Pivot ==
    /\ pc = "reshape_start"
    /\ tarifas' = columns_to_tarifas(table_data)
    /\ pc' = "pivoted"
    /\ UNCHANGED <<uploadVars, text, extractVars, norm_once, norm_twice, value, converted,
                   table_data, expanded_table>>

\* expand_unica_table(table_data)
Expand ==
    /\ pc = "pivoted"
    /\ expanded_table' = expand_unica_table(table_data)
    /\ pc' = "expanded"
    /\ UNCHANGED <<uploadVars, text, extractVars, norm_once, norm_twice, value, converted,
                   table_data, tarifas>>

\* columns_to_tarifas(unica_data_expanded)
PivotExpanded ==
    /\ pc = "expanded"
    /\ tarifas' = columns_to_tarifas(expanded_table)
    /\ pc' = "reshape_done"
    /\ UNCHANGED <<uploadVars, text, extractVars, norm_once, norm_twice, value, converted,
                   table_data, expanded_table>>

NextReshape == Pivot \/ Expand \/ PivotExpanded

SpecReshape == InitReshape /\ [][NextReshape]_vars

----------------------------------------------------------------------------
(* The upload handlers of the API server: extract_price_tables and
   extract_generic.  file.save and os.remove are taken to succeed; the
   entries of a ZIP are its pdf_names. *)

\* texts Docling exports: empty, a table without its marker, a potencia table
DocumentTexts ==
    {<<>>,
     Join(<<LineHeader8, LineData8>>, <<"LF">>),
     Join(<<LinePotenciaStart, LineHeader8, LineData8, LinePotenciaEnd>>, <<"LF">>)}

\* potencia_data, clasica_base_data and unica_data_raw of the text: the set
\* of the one value, norm = normalize_text(text) being computed once
ParsedTables(t) ==
    {[potencia |-> parse_table_to_columns(t, n, potencia_headers,
                       potencia_start_rx, potencia_end_rx),
      base |-> parse_table_to_columns(t, n, clasica_base_headers,
                   clasica_base_start_rx, clasica_base_end_rx),
      unica |-> IF LastMatch(unica_start_rx, n) # 0
                THEN parse_table_to_columns(t, UnicaSlice(n), unica_headers,
                         Anchored(unica_start_rx), unica_end_rx)
                ELSE EmptyTable] : n \in {normalize_text(t)}}

\* extract_price_tables_from_text(text): the set of the one result
ExtractedTables(t) ==
    {[filename |-> "Total Energies",
      tabla_precio_potencia |->
          [titulo |-> Titulos(t).potencia,
           tarifas |-> columns_to_tarifas(p.potencia)],
      tabla_precio_clasica_base |->
          [titulo |-> Titulos(t).base,
           tarifas |-> columns_to_tarifas(p.base)],
      tabla_precio_clasica_unica |->
          [titulo |-> Titulos(t).unica,
           tarifas |-> columns_to_tarifas(expand_unica_table(p.unica))]] :
        p \in ParsedTables(t)}

\* what DocumentConverter makes of a PDF: convert raises, export_to_text
\* raises, or a text is exported; tables is what
\* extract_price_tables_from_text returns for the text
Docs ==
    {[convert_ok |-> FALSE, export_ok |-> TRUE, text |-> <<>>, tables |-> NoResult],
     [convert_ok |-> TRUE, export_ok |-> FALSE, text |-> <<>>, tables |-> NoResult]}
    \cup UNION {{[convert_ok |-> TRUE, export_ok |-> TRUE, text |-> t, tables |-> x] :
                    x \in ExtractedTables(t)} : t \in DocumentTexts}

NoDoc ==
    [convert_ok |-> FALSE, export_ok |-> FALSE, text |-> <<>>, tables |-> NoResult]

\* an entry of pdf_names: zf.read(inner_name) returns its bytes or raises
ZipEntries ==
    {[readable |-> FALSE, doc |-> NoDoc]}
    \cup {[readable |-> TRUE, doc |-> d] : d \in Docs}

UploadedFile(kind, opens, doc, entries) ==
    [kind |-> kind, opens |-> opens, doc |-> doc, entries |-> entries]

\* the uploaded files that count as w units: a file alone, or a ZIP with
\* w - 1 PDF entries
FilesOfWeight(w) ==
    IF w = 1
    THEN {UploadedFile("empty_name", FALSE, NoDoc, <<>>),
          UploadedFile("not_allowed", FALSE, NoDoc, <<>>),
          UploadedFile("zip", FALSE, NoDoc, <<>>),
          UploadedFile("zip", TRUE, NoDoc, <<>>)}
         \cup {UploadedFile("pdf", TRUE, d, <<>>) : d \in Docs}
    ELSE {UploadedFile("zip", TRUE, NoDoc, es) : es \in [1..(w - 1) -> ZipEntries]}

RECURSIVE RequestsOfWeight(_)
RequestsOfWeight(n) ==
    IF n = 0
    THEN {<<>>}
    ELSE UNION {{<<f>> \o r : f \in FilesOfWeight(w), r \in RequestsOfWeight(n - w)} :
                w \in 1..n}

\* request.files of a request
Requests == UNION {RequestsOfWeight(n) : n \in 0..MaxUnits}

Endpoints == {"/extract-price-tables", "/extract-generic"}

\* file.filename of the i-th upload and the name of the j-th PDF in it
Filename(i) == [file |-> i, entry |-> 0, secured |-> FALSE]
InnerName(i, j) == [file |-> i, entry |-> j, secured |-> FALSE]
EmptyFilename == [file |-> 0, entry |-> 0, secured |-> FALSE]
secure_filename(name) == [name EXCEPT !.secured = TRUE]

\* the path in UPLOAD_FOLDER: a fresh uuid4 and the secured name
TempPath(name) == [uuid |-> <<name.file, name.entry>>, name |-> secure_filename(name)]


TableKeys ==
    {"tabla_precio_potencia", "tabla_precio_clasica_base",
     "tabla_precio_clasica_unica"}

\* tables.get(...).get(k, {}).get('tarifas', [])
TarifasOf(tables, k) == IF k \in DOMAIN tables THEN tables[k].tarifas ELSE <<>>

\* has_any: some tarifas list of the tables is non-empty
has_any(tables) == \E k \in TableKeys : TarifasOf(tables, k) # <<>>

ProcessingError(name) == [fileName |-> name, error |-> "Processing error"]

NoTablesError(name) ==
    [fileName |-> name,
     error |-> "Could not extract any price tables from the document."]

\* the try block of extract_price_tables around one PDF: what it appends
process_price_tables(doc, name) ==
    IF ~doc.convert_ok \/ ~doc.export_ok
    THEN [results |-> <<>>, errors |-> <<ProcessingError(name)>>]
    ELSE LET tables == doc.tables
         IN  IF DOMAIN tables = {} \/ ~has_any(tables)
             THEN [results |-> <<>>, errors |-> <<NoTablesError(name)>>]
             ELSE [results |-> <<[fileName |-> name, extracted_tables |-> tables]>>,
                   errors |-> <<>>]

\* export_document_payload(document)["text"]
ExportedText(doc) == IF doc.export_ok THEN Some(doc.text) ELSE None

\* process_pdf(path, name) of extract_generic and the try block around it
process_generic(doc, name) ==
    IF ~doc.convert_ok
    THEN [results |-> <<>>, errors |-> <<ProcessingError(name)>>]
    ELSE LET exported == ExportedText(doc)
             txt == IF exported = None THEN <<>> ELSE doc.text
             tables == IF txt # <<>> THEN doc.tables ELSE EmptyTable
         IN  [results |-> <<[fileName |-> name, extracted_tables |-> tables,
                             exports |-> [text |-> exported]]>>,
              errors |-> <<>>]

\* a handler that appends nothing for a PDF whose processing raises
process_dropping_failures(ep, doc, name) ==
    IF ~doc.convert_ok \/ (ep = "/extract-price-tables" /\ ~doc.export_ok)
    THEN [results |-> <<>>, errors |-> <<>>]
    ELSE IF ep = "/extract-price-tables"
         THEN process_price_tables(doc, name)
         ELSE process_generic(doc, name)

\* what the handler of the endpoint appends for one PDF
process(ep, doc, name) ==
    IF ep = "/extract-price-tables"
    THEN process_price_tables(doc, name)
    ELSE process_generic(doc, name)

InitUpload ==
    /\ pc = "loop"
    /\ endpoint \in Endpoints
    /\ uploaded_files \in Requests
    /\ file_idx = 1
    /\ entry_idx = 0
    /\ temp_files = {}
    /\ results = <<>>
    /\ errors = <<>>
    /\ status_code = 0
    /\ text = <<>>
    /\ IdleExtract /\ IdleNormalize /\ IdleConvert /\ IdleReshape

idleVars == <<text, extractVars, otherVars>>

InLoop == pc = "loop" /\ file_idx <= Len(uploaded_files)

\* if not uploaded_files: return 400
NoFiles ==
    /\ pc = "loop"
    /\ uploaded_files = <<>>
    /\ status_code' = 400
    /\ pc' = "responded"
    /\ UNCHANGED <<endpoint, uploaded_files, file_idx, entry_idx, temp_files,
                   results, errors, idleVars>>

\* an empty filename or an extension that is not allowed: an error, continue
RejectFile ==
    /\ InLoop
    /\ uploaded_files[file_idx].kind \in {"empty_name", "not_allowed"}
    /\ errors' = Append(errors,
          IF uploaded_files[file_idx].kind = "empty_name"
          THEN [fileName |-> EmptyFilename, error |-> "Empty filename."]
          ELSE [fileName |-> Filename(file_idx), error |-> "File type not allowed."])
    /\ file_idx' = file_idx + 1
    /\ UNCHANGED <<pc, endpoint, uploaded_files, entry_idx, temp_files,
                   results, status_code, idleVars>>

\* file.save(filepath)
SaveFile ==
    /\ InLoop
    /\ uploaded_files[file_idx].kind \in {"pdf", "zip"}
    /\ temp_files' = temp_files \cup {TempPath(Filename(file_idx))}
    /\ pc' = "saved"
    /\ UNCHANGED <<endpoint, uploaded_files, file_idx, entry_idx,
                   results, errors, status_code, idleVars>>

\* the regular single PDF case: try, except, finally
ProcessPdf ==
    /\ pc = "saved"
    /\ uploaded_files[file_idx].kind = "pdf"
    /\ LET out == process(endpoint, uploaded_files[file_idx].doc,
                          secure_filename(Filename(file_idx)))
       IN  /\ results' = results \o out.results
           /\ errors' = errors \o out.errors
    /\ temp_files' = temp_files \ {TempPath(Filename(file_idx))}
    /\ file_idx' = file_idx + 1
    /\ pc' = "loop"
    /\ UNCHANGED <<endpoint, uploaded_files, entry_idx, status_code, idleVars>>

\* with zipfile.ZipFile(filepath) as zf: pdf_names; a file that is not a ZIP
\* raises, the finally removes the upload and the exception leaves the handler
OpenZip ==
    /\ pc = "saved"
    /\ uploaded_files[file_idx].kind = "zip"
    /\ IF uploaded_files[file_idx].opens
       THEN /\ errors' =
                  IF uploaded_files[file_idx].entries = <<>>
                  THEN Append(errors,
                           [fileName |-> secure_filename(Filename(file_idx)),
                            error |-> "ZIP does not contain any PDF files."])
                  ELSE errors
            /\ entry_idx' = 1
            /\ pc' = "zip"
            /\ UNCHANGED <<temp_files, status_code>>
       ELSE /\ temp_files' = temp_files \ {TempPath(Filename(file_idx))}
            /\ status_code' = 500
            /\ pc' = "aborted"
            /\ UNCHANGED <<errors, entry_idx>>
    /\ UNCHANGED <<endpoint, uploaded_files, file_idx, results, idleVars>>

InZip == pc = "zip" /\ entry_idx <= Len(uploaded_files[file_idx].entries)

\* open(inner_temp, 'wb') and f_out.write(zf.read(inner_name)): the file is
\* created, and a read that raises leaves through the outer finally only
WriteEntry ==
    /\ InZip
    /\ IF uploaded_files[file_idx].entries[entry_idx].readable
       THEN /\ temp_files' =
                  temp_files \cup {TempPath(InnerName(file_idx, entry_idx))}
            /\ pc' = "written"
            /\ UNCHANGED status_code
       ELSE /\ temp_files' =
                  (temp_files \cup {TempPath(InnerName(file_idx, entry_idx))})
                      \ {TempPath(Filename(file_idx))}
            /\ status_code' = 500
            /\ pc' = "aborted"
    /\ UNCHANGED <<endpoint, uploaded_files, file_idx, entry_idx,
                   results, errors, idleVars>>

\* one PDF of the ZIP: try, except, finally os.remove(inner_temp)
ProcessEntry ==
    /\ pc = "written"
    /\ LET out == process(endpoint, uploaded_files[file_idx].entries[entry_idx].doc,
                          secure_filename(InnerName(file_idx, entry_idx)))
       IN  /\ results' = results \o out.results
           /\ errors' = errors \o out.errors
    /\ temp_files' = temp_files \ {TempPath(InnerName(file_idx, entry_idx))}
    /\ entry_idx' = entry_idx + 1
    /\ pc' = "zip"
    /\ UNCHANGED <<endpoint, uploaded_files, file_idx, status_code, idleVars>>

\* after the last PDF of the ZIP: finally os.remove(filepath); continue
CloseZip ==
    /\ pc = "zip"
    /\ entry_idx > Len(uploaded_files[file_idx].entries)
    /\ temp_files' = temp_files \ {TempPath(Filename(file_idx))}
    /\ entry_idx' = 0
    /\ file_idx' = file_idx + 1
    /\ pc' = "loop"
    /\ UNCHANGED <<endpoint, uploaded_files, results, errors, status_code,
                   idleVars>>

\* status_code = 200 if results else 400; return
Respond ==
    /\ pc = "loop"
    /\ uploaded_files # <<>>
    /\ file_idx > Len(uploaded_files)
    /\ status_code' = IF results # <<>> THEN 200 ELSE 400
    /\ pc' = "responded"
    /\ UNCHANGED <<endpoint, uploaded_files, file_idx, entry_idx, temp_files,
                   results, errors, idleVars>>

NextUpload ==
    \/ NoFiles
    \/ RejectFile
    \/ SaveFile
    \/ ProcessPdf
    \/ OpenZip
    \/ WriteEntry
    \/ ProcessEntry
    \/ CloseZip
    \/ Respond

SpecUpload == InitUpload /\ [][NextUpload]_vars

----------------------------------------------------------------------------
(* Properties *)

LF == <<"LF">>

Fields == {"tarifa", "potencia_contratada", "P1", "P2", "P3", "P4", "P5", "P6"}

\* the column a field of a row is read from
FieldKey(f) ==
    IF f = "tarifa" THEN "TARIFA"
    ELSE IF f = "potencia_contratada" THEN "POTENCIA CONTRATADA"
    ELSE f

PotenciaRows == result.tabla_precio_potencia.tarifas
BaseRows == result.tabla_precio_clasica_base.tarifas
UnicaRows == result.tabla_precio_clasica_unica.tarifas

\* positions of the original text that hold a phrase the pattern matches
PhraseAt(t, rx) == {i \in 1..Len(t) : NormSym(t[i]) \in rx.syms}

HasNoStartMarker(t) ==
    /\ PhraseAt(t, potencia_start_rx) = {}
    /\ PhraseAt(t, clasica_base_start_rx) = {}
    /\ PhraseAt(t, unica_start_rx) = {}

\* a list of rows, each with the 8 fields
IsRows(rows) == \A i \in 1..Len(rows) : DOMAIN rows[i] = Fields

\* C1: the call on any text (the empty text and texts without markers
\* included) returns the dictionary with its three tables, and for a text
\* without any of the three start markers the three tarifas lists are empty.
C1_NoMarkerAllEmpty ==
    pc = "done" =>
        /\ result.filename = "Total Energies"
        /\ IsRows(PotenciaRows) /\ IsRows(BaseRows) /\ IsRows(UnicaRows)
        /\ HasNoStartMarker(text) =>
              PotenciaRows = <<>> /\ BaseRows = <<>> /\ UnicaRows = <<>>

\* C1 witness: a text with a header line and a data line but no start
\* marker has been processed and gave three empty lists.
C1_Witness ==
    /\ pc = "done"
    /\ text = Join(<<LineHeader8, LineData8, LineHeader3, LineData8>>, LF)
    /\ HasNoStartMarker(text)
    /\ PotenciaRows = <<>> /\ BaseRows = <<>> /\ UnicaRows = <<>>

\* marker, header, data line, end marker
EndToEndText ==
    Join(<<LinePotenciaStart, LineHeader8, LineData8, LinePotenciaEnd>>, LF)

\* C2: for the end-to-end text the potencia table has exactly one row:
\* tarifa "TE1", potencia_contratada 3.45, P1 0.12, P2 0.15, P3 0.10,
\* P4 0.10, P5 0.15, P6 0.12.
C2_EndToEndRow ==
    (pc = "done" /\ text = EndToEndText) =>
        PotenciaRows =
            <<[tarifa |-> Str(<<"T", "E", "1">>),
               potencia_contratada |-> Num(345, -2),
               P1 |-> Num(12, -2), P2 |-> Num(15, -2), P3 |-> Num(1, -1),
               P4 |-> Num(1, -1), P5 |-> Num(15, -2), P6 |-> Num(12, -2)]>>

\* what the code returns for the end-to-end text: the tarifa in lower case
\* and the period of 3.45 removed as a thousands separator
C2_ActualRow ==
    (pc = "done" /\ text = EndToEndText) =>
        PotenciaRows =
            <<[tarifa |-> Str(<<"t", "e", "1">>),
               potencia_contratada |-> Num(345, 0),
               P1 |-> Num(12, -2), P2 |-> Num(15, -2), P3 |-> Num(1, -1),
               P4 |-> Num(1, -1), P5 |-> Num(15, -2), P6 |-> Num(12, -2)]>>

TextCellsOriginal(rows) ==
    \A i \in 1..Len(rows) : \A f \in Fields :
        rows[i][f].t = "str" => Contains(text, rows[i][f].s)

\* C3: every textual cell of a returned row is text of the original input
\* (original case and accents), never its normalized form.
C3_OutputKeepsOriginalText ==
    pc = "done" =>
        /\ TextCellsOriginal(PotenciaRows)
        /\ TextCellsOriginal(BaseRows)
        /\ TextCellsOriginal(UnicaRows)

\* the cell without its bar characters and surrounding whitespace
WithoutBars(v) == Strip(SelectSeq(v, LAMBDA c : c # "|"), Whitespace)

\* the periods removed, the comma turned into a period
DecimalForm(c) ==
    LET kept == SelectSeq(c, LAMBDA x : x # ".")
    IN  [i \in 1..Len(kept) |-> IF kept[i] = "," THEN "." ELSE kept[i]]

C5_NormalizeIdempotent == pc = "norm_done" => norm_twice = norm_once

\* the original text from the last unica marker on
LastUnicaSuffix ==
    Slice(text, MaxOf(PhraseAt(text, unica_start_rx)), Len(text))

\* the unica rows of a text that begins with the unica marker
UnicaRowsOf(t) ==
    columns_to_tarifas(expand_unica_table(
        parse_table_to_columns(t, normalize_text(t), unica_headers,
                               Anchored(unica_start_rx), unica_end_rx)))

\* C6: when the unica marker occurs two or more times, the rows of
\* tabla_precio_clasica_unica are those of the text from the last occurrence
\* on, at most one per line after the marker's line; nothing before the last
\* occurrence contributes a row.
C6_LastOccurrence ==
    (pc = "done" /\ Cardinality(PhraseAt(text, unica_start_rx)) >= 2) =>
        /\ UnicaRows = UnicaRowsOf(LastUnicaSuffix)
        /\ Len(UnicaRows) <= Cardinality({i \in 1..Len(LastUnicaSuffix) :
                                             LastUnicaSuffix[i] = "LF"})

\* C6 witness: the unica table is printed twice with different data lines,
\* and the one row returned is the row beneath the second marker.
C6_Witness ==
    /\ pc = "done"
    /\ text = Join(<<LineUnicaStart, LineHeader3, LineData3,
                     LineUnicaStart, LineHeader3, LineDataLong>>, LF)
    /\ Len(UnicaRows) = 1
    /\ UnicaRows[1].tarifa = Str(<<"t", "e", "5">>)
    /\ UnicaRows[1].P6 = Num(2, 0)

\* the table the rows in tarifas were pivoted from
PivotInput == IF pc = "reshape_done" THEN expanded_table ELSE table_data

\* C7: the pivot of a columnar table with columns of length N has exactly N
\* rows (the longest column decides when they differ), every row has exactly
\* the 8 fields, a field is the column's value at the row or null when the
\* column is absent or shorter, and the empty table gives the empty list.
C7_PivotLaw ==
    pc \in {"pivoted", "expanded", "reshape_done"} =>
        /\ DOMAIN PivotInput = {} => tarifas = <<>>
        /\ Len(tarifas) = MaxOf({Len(PivotInput[k]) : k \in DOMAIN PivotInput})
        /\ \A i \in 1..Len(tarifas) :
              /\ DOMAIN tarifas[i] = Fields
              /\ \A f \in Fields :
                    tarifas[i][f] =
                        IF /\ FieldKey(f) \in DOMAIN PivotInput
                           /\ Len(PivotInput[FieldKey(f)]) >= i
                        THEN PivotInput[FieldKey(f)][i]
                        ELSE Null

\* C7 witness: a table without TARIFA whose columns have length 2, P3 one
\* shorter, has been pivoted into 2 rows with null for the missing values.
C7_Witness ==
    /\ pc = "pivoted"
    /\ DOMAIN table_data = {"POTENCIA CONTRATADA", "P1", "P3"}
    /\ Len(table_data["P1"]) = 2
    /\ Len(table_data["P3"]) = 1
    /\ Len(tarifas) = 2
    /\ tarifas[2].P1 = table_data["P1"][2]
    /\ tarifas[2].P3 = Null
    /\ tarifas[2].tarifa = Null

\* C8: the expansion of a table with the combined 'P1 - P6' column has
\* P1..P6 each equal to that column and carries the TARIFA and POTENCIA
\* CONTRATADA columns over unchanged; without the combined column (or for
\* the empty table) the expansion is the empty table.
C8_ExpansionLaw ==
    pc \in {"expanded", "reshape_done"} =>
        IF "P1 - P6" \in DOMAIN table_data
        THEN /\ PeriodKeys \subseteq DOMAIN expanded_table
             /\ \A k \in PeriodKeys : expanded_table[k] = table_data["P1 - P6"]
             /\ \A k \in {"TARIFA", "POTENCIA CONTRATADA"} \cap DOMAIN table_data :
                   k \in DOMAIN expanded_table /\ expanded_table[k] = table_data[k]
        ELSE DOMAIN expanded_table = {}

\* C8 witness: a table with the combined column of two values, TARIFA and
\* POTENCIA CONTRATADA has been expanded.
C8_Witness ==
    /\ pc = "expanded"
    /\ DOMAIN table_data = {"TARIFA", "POTENCIA CONTRATADA", "P1 - P6"}
    /\ Len(table_data["P1 - P6"]) = 2
    /\ expanded_table["P1"] = table_data["P1 - P6"]
    /\ expanded_table["P6"] = expanded_table["P1"]
    /\ expanded_table["TARIFA"] = table_data["TARIFA"]

\* every declared header is a key and all columns have the same length
Padded(columns, headers) ==
    DOMAIN columns # {} =>
        /\ DOMAIN columns = Range(headers)
        /\ \A h \in DOMAIN columns : \A g \in DOMAIN columns :
              Len(columns[h]) = Len(columns[g])

\* C9: a non-empty table returned by parse_table_to_columns has every
\* declared header as a key and columns of one length, whatever the data
\* lines are.
C9_ColumnPadding ==
    /\ Padded(potencia_data, potencia_headers)
    /\ Padded(clasica_base_data, clasica_base_headers)
    /\ Padded(unica_data_raw, unica_headers)

\* C9 witness: a potencia table whose data lines have 3 fragments, are a
\* separator, and have 9 fragments, parsed into 8 columns of length 2.
C9_Witness ==
    /\ pc = "done"
    /\ text = Join(<<LinePotenciaStart, LineHeader8, LineData3, LineSeparator,
                     LineDataLong>>, LF)
    /\ DOMAIN potencia_data = Range(potencia_headers)
    /\ Len(potencia_data["TARIFA"]) = 2
    /\ potencia_data["P6"] = <<Null, Num(7, 0)>>

\* C10: for each table, when no line of the original text matches its title
\* pattern the titulo is the table's fixed default; the titulo is never
\* empty.
C10_TitleFallback ==
    pc = "done" =>
        /\ PhraseAt(text, potencia_title_rx) = {}
              => result.tabla_precio_potencia.titulo = default_titulo_potencia
        /\ PhraseAt(text, clasica_base_title_rx) = {}
              => result.tabla_precio_clasica_base.titulo = default_titulo_base
        /\ PhraseAt(text, unica_start_rx) = {}
              => result.tabla_precio_clasica_unica.titulo = default_titulo_unica
        /\ result.tabla_precio_potencia.titulo # <<>>
        /\ result.tabla_precio_clasica_base.titulo # <<>>
        /\ result.tabla_precio_clasica_unica.titulo # <<>>

\* C10 witness: a text with a potencia table and no title line of any table
\* has been given the three default titles.
C10_Witness ==
    /\ pc = "done"
    /\ text = EndToEndText
    /\ PhraseAt(text, potencia_title_rx) = {}
    /\ result.tabla_precio_potencia.titulo = <<"PRECIO POTENCIA (EUR/kWdi'a)">>
    /\ result.tabla_precio_clasica_base.titulo = default_titulo_base
    /\ result.tabla_precio_clasica_unica.titulo = default_titulo_unica
    /\ Len(PotenciaRows) = 1

\* the handler has returned its response or left with an exception
Exited == pc \in {"responded", "aborted"}

\* C11: when the handler of either endpoint exits, on any path, none of the
\* temporary files it created (the saved upload, the files extracted from a
\* ZIP) is left.
C11_TempFilesDeleted == Exited => temp_files = {}

\* the PDFs of the request: <<i, 0>> an uploaded PDF, <<i, j>> the j-th PDF
\* of an uploaded ZIP
PdfUnits ==
    {<<i, 0>> : i \in {k \in 1..Len(uploaded_files) : uploaded_files[k].kind = "pdf"}}
    \cup UNION {{<<i, j>> : j \in 1..Len(uploaded_files[i].entries)} :
                i \in 1..Len(uploaded_files)}

UnitDoc(u) ==
    IF u[2] = 0 THEN uploaded_files[u[1]].doc
                ELSE uploaded_files[u[1]].entries[u[2]].doc

UnitName(u) == secure_filename(InnerName(u[1], u[2]))

\* the handler is past the try block of the PDF
Processed(u) == u[1] < file_idx \/ (u[1] = file_idx /\ 0 < u[2] /\ u[2] < entry_idx)

\* the converter raises, or in extract_price_tables the text export raises
Raises(doc) ==
    ~doc.convert_ok \/ (endpoint = "/extract-price-tables" /\ ~doc.export_ok)

EntriesNamed(list, name) ==
    Cardinality({k \in 1..Len(list) : list[k].fileName = name})

\* C12: a PDF (uploaded or inside a ZIP) whose conversion raises gets exactly
\* one error entry (fileName, error) and no result; every PDF the handler is
\* past, before or after a failing one, has exactly one entry in results or
\* errors; and a response is returned only after the last uploaded file.
C12_FailureIsolated ==
    /\ \A u \in PdfUnits :
          Processed(u) =>
              /\ EntriesNamed(results, UnitName(u))
                    + EntriesNamed(errors, UnitName(u)) = 1
              /\ Raises(UnitDoc(u)) =>
                    \E k \in 1..Len(errors) :
                        errors[k] = ProcessingError(UnitName(u))
    /\ pc = "responded" => file_idx > Len(uploaded_files)

\* C12 witness: the first of two uploaded PDFs fails to convert and the
\* second one is in results of the response returned.
C12_Witness ==
    /\ pc = "responded"
    /\ Len(uploaded_files) = 2
    /\ uploaded_files[1].kind = "pdf" /\ ~uploaded_files[1].doc.convert_ok
    /\ errors = <<ProcessingError(secure_filename(Filename(1)))>>
    /\ Len(results) = 1
    /\ results[1].fileName = secure_filename(Filename(2))
    /\ status_code = 200

\* the three tarifas lists of the tables are all empty
AllTarifasEmpty(tables) == \A k \in TableKeys : TarifasOf(tables, k) = <<>>

\* C13: on both endpoints an entry of results has at least one non-empty
\* tarifas list, and a PDF whose three lists are all empty is in errors, not
\* in results.
C13_SuccessPolicy ==
    pc = "responded" =>
        /\ \A k \in 1..Len(results) : ~AllTarifasEmpty(results[k].extracted_tables)
        /\ \A u \in PdfUnits :
              (/\ UnitDoc(u).convert_ok /\ UnitDoc(u).export_ok
               /\ AllTarifasEmpty(UnitDoc(u).tables))
                  => /\ EntriesNamed(results, UnitName(u)) = 0
                     /\ EntriesNamed(errors, UnitName(u)) = 1

\* what the code does: the policy holds on /extract-price-tables
C13_PolicyOfPriceTables ==
    endpoint = "/extract-price-tables" => C13_SuccessPolicy

\* the text begins with the lines given and goes on, if at all, on a new line
BeginsWithLines(t, lines) ==
    LET head == Join(lines, LF)
    IN  /\ Len(t) >= Len(head)
        /\ Slice(t, 1, Len(head)) = head
        /\ Len(t) > Len(head) => t[Len(head) + 1] = "LF"

\* the potencia marker, the header and a data line without bars whose
\* fields are two spaces apart
SpaceSeparatedTable == <<LinePotenciaStart, LineHeader8, LineDataSpaces>>

\* C14: a data line without '|' whose fields are separated by two spaces is
\* split into its fields, assigned in order to TARIFA, POTENCIA CONTRATADA,
\* P1, ...; it is not one fragment.
C14_SplitOnSpaces ==
    (pc = "done" /\ BeginsWithLines(text, SpaceSeparatedTable)) =>
        /\ Len(PotenciaRows) >= 1
        /\ PotenciaRows[1].tarifa \in {Str(<<"T", "A'", "4">>), Str(<<"t", "a", "4">>)}
        /\ PotenciaRows[1].potencia_contratada = Num(345, -2)
        /\ PotenciaRows[1].P1 = Num(12, -2)

\* what the code returns for the line: the whole line as the tarifa
C14_ActualRow ==
    (pc = "done" /\ BeginsWithLines(text, SpaceSeparatedTable)) =>
        /\ Len(PotenciaRows) >= 1
        /\ PotenciaRows[1].tarifa =
              Str(<<"t", "a", "4", " ", "3", ",", "4", "5", " ", "0", ",", "1", "2">>)
        /\ \A f \in Fields \ {"tarifa"} : PotenciaRows[1][f] = Null

\* the clasica base marker and the 8-column header on two lines
TwoLineHeaderTable == <<LineBaseStart, LineHeader8a, LineHeader8b>>

\* the lines of the text after its first three
LinesAfterHeader(t) == Cardinality({i \in 1..Len(t) : t[i] = "LF"}) - 2

\* C15: with the header on two adjacent lines, the rows are taken from the
\* lines after the two header lines only: there are no more rows than such
\* lines, and no row holds the header tokens of the second header line.
C15_TwoLineHeader ==
    (pc = "done" /\ BeginsWithLines(text, TwoLineHeaderTable)) =>
        /\ Len(BaseRows) <= MaxOf({0, LinesAfterHeader(text)})
        /\ \A i \in 1..Len(BaseRows) :
              BaseRows[i].tarifa \notin {Str(<<"P", "3">>), Str(<<"p", "3">>)}

\* what the code returns: the second header line is the first row
C15_ActualRow ==
    (pc = "done" /\ BeginsWithLines(text, TwoLineHeaderTable)) =>
        /\ Len(BaseRows) >= 1
        /\ BaseRows[1].tarifa = Str(<<"p", "3">>)
        /\ BaseRows[1].potencia_contratada = Str(<<"p", "4">>)
        /\ BaseRows[1].P1 = Str(<<"p", "5">>)
        /\ BaseRows[1].P2 = Str(<<"p", "6">>)
        /\ BaseRows[1].P3 = Null

====
